---- MODULE Spec2Model ----
(***************************************************************************)
(* Stock ledger of the inventory app: StockMovement rows, the cached       *)
(* Product.current_quantity, the post_save alert handler and the           *)
(* recalculate_stock maintenance path, as the REST layer drives them.      *)
(* Every database statement of a request is one step, so that requests of  *)
(* different workers interleave the way autocommit statements do.          *)
(***************************************************************************)
EXTENDS Integers, Sequences, FiniteSets, TLC

\* ------------------------------------------------------------------ bounds
\* StockMovement instances that may ever be constructed (accepted appends)
MaxMovements == 2
\* maintenance requests served (row update, row delete, recalculate_stock)
MaxMaint == 2

\* ------------------------------------------------------------- vocabulary
Workers == {"w1", "w2"}

STOCK_IN == "STOCK_IN"
SALE == "SALE"
RETURN == "RETURN"
DAMAGE == "DAMAGE"
THEFT == "THEFT"
ADJUSTMENT == "ADJUSTMENT"
TRANSFER_OUT == "TRANSFER_OUT"
TRANSFER_IN == "TRANSFER_IN"

MOVEMENT_TYPES ==
    {STOCK_IN, SALE, RETURN, DAMAGE, THEFT, ADJUSTMENT, TRANSFER_OUT, TRANSFER_IN}

TRACKING_CHOICES == {"NONE", "SERIAL", "BATCH", "BOTH"}

Null == "null"

\* the tenants, and the business that owns each product (Product.business)
Businesses == {"b1", "b2"}

ProductBusiness(p) == IF p = "p2" THEN "b2" ELSE "b1"

\* the authenticated users, and the owner of each business (Business.owner)
Users == {"u1", "u2", "u3", "u4"}

BusinessOwner(business) == IF business = "b2" THEN "u2" ELSE "u1"

\* table roles as the create_roles command fills it
OWNER == "OWNER"
MANAGER == "MANAGER"
SALES_STAFF == "SALES_STAFF"
INVENTORY_STAFF == "INVENTORY_STAFF"

ROLE_CHOICES == {OWNER, MANAGER, SALES_STAFF, INVENTORY_STAFF}

can_manage_inventory(role) == role \in {OWNER, MANAGER, INVENTORY_STAFF}

can_manage_staff(role) == role \in {OWNER, MANAGER}

\* table staff_members once both businesses are set up: each owner got an OWNER
\* membership when the business was created; in b1, u4 is a manager, u3 sells
\* (a role without can_manage_inventory) and u2 was a manager until deactivated
StaffMembers ==
    {[user |-> "u1", business |-> "b1", role |-> OWNER, is_active |-> TRUE],
     [user |-> "u2", business |-> "b2", role |-> OWNER, is_active |-> TRUE],
     [user |-> "u2", business |-> "b1", role |-> MANAGER, is_active |-> FALSE],
     [user |-> "u3", business |-> "b1", role |-> SALES_STAFF, is_active |-> TRUE],
     [user |-> "u4", business |-> "b1", role |-> MANAGER, is_active |-> TRUE]}

VARIABLES
    products,    \* table products: id -> [current_quantity, reorder_level, tracking_type]
    movements,   \* table stock_movements, in insertion (timestamp) order
    alerts,      \* table stock_alerts, in insertion order
    req,         \* per worker: the request it is serving, or its last response
    created,     \* number of StockMovement instances constructed so far (the last id)
    maint,       \* number of maintenance requests accepted so far
    staff_members  \* table staff_members: rows [user, business, role, is_active]

vars == <<products, movements, alerts, req, created, maint, staff_members>>

\* ------------------------------------------------------- pure computations
abs(x) == IF x < 0 THEN -x ELSE x

\* the kinds StockMovement.save and recalculate_stock add; all others subtract
PositiveTypes == {STOCK_IN, RETURN, TRANSFER_IN}

\* kinds for which the serializer demands a reason
ReasonTypes == {RETURN, DAMAGE, THEFT, ADJUSTMENT}

\* kinds for which the serializer checks the available stock
OutgoingTypes == {SALE, DAMAGE, THEFT, TRANSFER_OUT}

\* balance_after as StockMovement.save computes it from the product instance
BalanceAfterFlipped(movement_type, current_quantity, quantity) ==
    IF movement_type \in PositiveTypes
    THEN current_quantity - abs(quantity)
    ELSE current_quantity + abs(quantity)

BalanceAfterAdjustmentIn(movement_type, current_quantity, quantity) ==
    IF movement_type \in PositiveTypes \cup {ADJUSTMENT}
    THEN current_quantity + abs(quantity)
    ELSE current_quantity - abs(quantity)

BalanceAfterReturnOut(movement_type, current_quantity, quantity) ==
    IF movement_type \in {STOCK_IN, TRANSFER_IN}
    THEN current_quantity + abs(quantity)
    ELSE current_quantity - abs(quantity)

BalanceAfter(movement_type, current_quantity, quantity) ==
    IF movement_type \in PositiveTypes
    THEN current_quantity + abs(quantity)
    ELSE current_quantity - abs(quantity)

\* StockMovementSerializer.validate: the first rule that fails, or "ok"
ValidateNoStockCheck(tracking_type, current_quantity, movement_type, quantity, serial_number, batch_number, reason) ==
    IF quantity <= 0 THEN "quantity_not_positive"
    ELSE IF tracking_type = "SERIAL" /\ ~serial_number THEN "serial_required"
    ELSE IF tracking_type = "BATCH" /\ ~batch_number THEN "batch_required"
    ELSE IF tracking_type = "BOTH" /\ (~serial_number \/ ~batch_number)
         THEN "tracking_required"
    ELSE IF movement_type \in ReasonTypes /\ ~reason THEN "reason_required"
    ELSE "ok"

ValidateNoReasonCheck(tracking_type, current_quantity, movement_type, quantity, serial_number, batch_number, reason) ==
    IF quantity <= 0 THEN "quantity_not_positive"
    ELSE IF tracking_type = "SERIAL" /\ ~serial_number THEN "serial_required"
    ELSE IF tracking_type = "BATCH" /\ ~batch_number THEN "batch_required"
    ELSE IF tracking_type = "BOTH" /\ (~serial_number \/ ~batch_number)
         THEN "tracking_required"
    ELSE IF movement_type \in OutgoingTypes /\ current_quantity < quantity
         THEN "insufficient_stock"
    ELSE "ok"

ValidateOffByOne(tracking_type, current_quantity, movement_type, quantity, serial_number, batch_number, reason) ==
    IF quantity <= 0 THEN "quantity_not_positive"
    ELSE IF tracking_type = "SERIAL" /\ ~serial_number THEN "serial_required"
    ELSE IF tracking_type = "BATCH" /\ ~batch_number THEN "batch_required"
    ELSE IF tracking_type = "BOTH" /\ (~serial_number \/ ~batch_number)
         THEN "tracking_required"
    ELSE IF movement_type \in ReasonTypes /\ ~reason THEN "reason_required"
    ELSE IF movement_type \in OutgoingTypes /\ current_quantity <= quantity
         THEN "insufficient_stock"
    ELSE "ok"

Validate(tracking_type, current_quantity, movement_type, quantity, serial_number, batch_number, reason) ==
    IF quantity <= 0 THEN "quantity_not_positive"
    ELSE IF tracking_type = "SERIAL" /\ ~serial_number THEN "serial_required"
    ELSE IF tracking_type = "BATCH" /\ ~batch_number THEN "batch_required"
    ELSE IF tracking_type = "BOTH" /\ (~serial_number \/ ~batch_number)
         THEN "tracking_required"
    ELSE IF movement_type \in ReasonTypes /\ ~reason THEN "reason_required"
    ELSE IF movement_type \in OutgoingTypes /\ current_quantity < quantity
         THEN "insufficient_stock"
    ELSE "ok"

\* the field each ValidationError is tagged with
ErrorField(error) ==
    CASE error = "quantity_not_positive" -> "quantity"
      [] error = "serial_required" -> "serial_number"
      [] error = "batch_required" -> "batch_number"
      [] error = "tracking_required" -> "tracking"
      [] error = "reason_required" -> "reason"
      [] error = "insufficient_stock" -> "quantity"

RECURSIVE ReplayAdjustmentAdds(_, _)
ReplayAdjustmentAdds(rows, product) ==
    IF rows = <<>> THEN 0
    ELSE LET n == Len(rows)
             m == rows[n]
             rest == ReplayAdjustmentAdds(SubSeq(rows, 1, n - 1), product)
         IN  IF m.product # product THEN rest
             ELSE IF m.movement_type \in {STOCK_IN, RETURN, TRANSFER_IN, ADJUSTMENT}
                  THEN rest + m.quantity
                  ELSE rest - m.quantity

\* the loop of recalculate_stock over the rows of one product
RECURSIVE Replay(_, _)
Replay(rows, product) ==
    IF rows = <<>> THEN 0
    ELSE LET n == Len(rows)
             m == rows[n]
             rest == Replay(SubSeq(rows, 1, n - 1), product)
         IN  IF m.product # product THEN rest
             ELSE IF m.movement_type \in PositiveTypes
                  THEN rest + m.quantity
                  ELSE rest - m.quantity

\* InventoryPermission: the business named by the request, and the caller's active
\* membership of it with can_manage_inventory
HasBusinessPermission(user, business) ==
    /\ business # Null
    /\ \E staff_member \in staff_members :
            /\ staff_member.user = user
            /\ staff_member.business = business
            /\ staff_member.is_active
            /\ can_manage_inventory(staff_member.role)

\* the businesses get_queryset lets a user see
UserBusinesses(user) ==
    {staff_member.business : staff_member \in
        {m \in staff_members :
            m.user = user /\ m.is_active /\ can_manage_inventory(m.role)}}

\* rows of an alert queryset: indices of the unresolved alerts of a product and kind
Unresolved(product, alert_type) ==
    {i \in 1..Len(alerts) :
        /\ alerts[i].product = product
        /\ alerts[i].alert_type = alert_type
        /\ ~alerts[i].is_resolved}

\* ------------------------------------------------------------------- state
Idle == [pc |-> "idle"]

Busy(w) == req[w].pc \notin {"idle", "done"}

Free(w) == ~Busy(w)

InitWith(ids, trackings, reorders) ==
    /\ products \in [ids -> [current_quantity : {0},
                                  reorder_level : reorders,
                                  tracking_type : trackings]]
    /\ movements = <<>>
    /\ alerts = <<>>
    /\ req = [w \in Workers |-> Idle]
    /\ created = 0
    /\ maint = 0
    /\ staff_members = StaffMembers

\* ---------------------------------------------------------------- append
CreateValidateSaveFirst(w, user, business, p, movement_type, quantity, serial_number, batch_number, reason) ==
    /\ Free(w)
    /\ created < MaxMovements
    /\ LET instance == products[p]
           error == Validate(instance.tracking_type, instance.current_quantity,
                             movement_type, quantity, serial_number, batch_number, reason)
       IN  /\ products' = [products EXCEPT ![p].current_quantity =
                    BalanceAfter(movement_type, instance.current_quantity, quantity)]
           /\ IF ~HasBusinessPermission(user, business)
              THEN /\ req' = [req EXCEPT ![w] =
                        [pc |-> "done", op |-> "create", status |-> 403,
                         error |-> "permission_denied"]]
                   /\ UNCHANGED created
              ELSE IF error # "ok"
              THEN /\ req' = [req EXCEPT ![w] =
                        [pc |-> "done", op |-> "create", status |-> 400, error |-> error]]
                   /\ UNCHANGED created
              ELSE /\ req' = [req EXCEPT ![w] =
                        [pc |-> "save_product", op |-> "create", id |-> created + 1,
                         product |-> p, business |-> business, performed_by |-> user,
                         movement_type |-> movement_type,
                         quantity |-> quantity, instance |-> instance]]
                   /\ created' = created + 1
    /\ UNCHANGED <<movements, alerts, maint, staff_members>>

\* POST stock-movements/: check_permissions() answers 403 unless the caller manages
\* the inventory of the business the body names; serializer.is_valid() fetches the
\* product row and runs validate() on it; a rejection answers 400 and nothing is
\* saved, an acceptance constructs the StockMovement instance from the body (its
\* id is drawn at construction, performed_by is the caller)
CreateValidate(w, user, business, p, movement_type, quantity, serial_number, batch_number, reason) ==
    /\ Free(w)
    /\ created < MaxMovements
    /\ LET instance == products[p]
           error == Validate(instance.tracking_type, instance.current_quantity,
                             movement_type, quantity, serial_number, batch_number, reason)
       IN  IF ~HasBusinessPermission(user, business)
           THEN /\ req' = [req EXCEPT ![w] =
                        [pc |-> "done", op |-> "create", status |-> 403,
                         error |-> "permission_denied"]]
                /\ UNCHANGED created
           ELSE IF error # "ok"
           THEN /\ req' = [req EXCEPT ![w] =
                        [pc |-> "done", op |-> "create", status |-> 400, error |-> error]]
                /\ UNCHANGED created
           ELSE /\ req' = [req EXCEPT ![w] =
                        [pc |-> "save_product", op |-> "create", id |-> created + 1,
                         product |-> p, business |-> business, performed_by |-> user,
                         movement_type |-> movement_type,
                         quantity |-> quantity, instance |-> instance]]
                /\ created' = created + 1
    /\ UNCHANGED <<products, movements, alerts, maint, staff_members>>

\* StockMovement.save, is_new branch: quantity, balance_after, then
\* product.save(update_fields=["current_quantity", "updated_at"])
SaveProduct(w) ==
    /\ req[w].pc = "save_product"
    /\ LET r == req[w]
           quantity == abs(r.quantity)
           balance_after == BalanceAfter(r.movement_type, r.instance.current_quantity,
                                         r.quantity)
       IN  /\ products' = [products EXCEPT ![r.product].current_quantity = balance_after]
           /\ req' = [req EXCEPT ![w] =
                    [pc |-> "signal", op |-> "create", id |-> r.id, product |-> r.product,
                     business |-> r.business, performed_by |-> r.performed_by,
                     movement_type |-> r.movement_type, quantity |-> quantity,
                     balance_after |-> balance_after,
                     instance |-> [r.instance EXCEPT !.current_quantity = balance_after]]]
    /\ UNCHANGED <<movements, alerts, created, maint, staff_members>>

\* where a request goes on when the post_save handler has returned
AfterSignal(r) ==
    IF r.op = "create"
    THEN [pc |-> "insert_row", op |-> "create", id |-> r.id, product |-> r.product,
          business |-> r.business, performed_by |-> r.performed_by,
          movement_type |-> r.movement_type, quantity |-> r.quantity,
          balance_after |-> r.balance_after]
    ELSE [pc |-> "done", op |-> "reconcile", product |-> r.product, status |-> 200,
          fixed |-> TRUE,
          old_quantity |-> r.old_quantity, new_quantity |-> r.new_quantity]

WantedAlertNoOutOfStock(instance) ==
    IF instance.current_quantity <= instance.reorder_level
       /\ instance.reorder_level > 0
    THEN "LOW_STOCK"
    ELSE Null

WantedAlertStrict(instance) ==
    IF instance.current_quantity = 0 THEN "OUT_OF_STOCK"
    ELSE IF instance.current_quantity < instance.reorder_level
            /\ instance.reorder_level > 0
         THEN "LOW_STOCK"
         ELSE Null

\* the alert the handler wants open for the saved instance, or Null
WantedAlert(instance) ==
    IF instance.current_quantity = 0 THEN "OUT_OF_STOCK"
    ELSE IF instance.current_quantity <= instance.reorder_level
            /\ instance.reorder_level > 0
         THEN "LOW_STOCK"
         ELSE Null

CheckStockAlertsLowOnly(w) ==
    /\ req[w].pc = "signal"
    /\ LET r == req[w]
           wanted == WantedAlert(r.instance)
       IN  IF wanted # Null
           THEN /\ req' = [req EXCEPT ![w] =
                        IF Unresolved(r.product, wanted) # {}
                        THEN AfterSignal(r)
                        ELSE [r EXCEPT !.pc = "alert_create"]]
                /\ UNCHANGED alerts
           ELSE /\ alerts' = [i \in 1..Len(alerts) |->
                        IF /\ alerts[i].product = r.product
                           /\ ~alerts[i].is_resolved
                           /\ alerts[i].alert_type \in {"LOW_STOCK"}
                        THEN [alerts[i] EXCEPT !.is_resolved = TRUE]
                        ELSE alerts[i]]
                /\ req' = [req EXCEPT ![w] = AfterSignal(r)]
    /\ UNCHANGED <<products, movements, created, maint, staff_members>>

\* check_stock_alerts, first statement: the SELECT of get_or_create, or the
\* UPDATE that resolves the open alerts
CheckStockAlerts(w) ==
    /\ req[w].pc = "signal"
    /\ LET r == req[w]
           wanted == WantedAlert(r.instance)
       IN  IF wanted # Null
           THEN /\ req' = [req EXCEPT ![w] =
                        IF Unresolved(r.product, wanted) # {}
                        THEN AfterSignal(r)
                        ELSE [r EXCEPT !.pc = "alert_create"]]
                /\ UNCHANGED alerts
           ELSE /\ alerts' = [i \in 1..Len(alerts) |->
                        IF /\ alerts[i].product = r.product
                           /\ ~alerts[i].is_resolved
                           /\ alerts[i].alert_type \in {"LOW_STOCK", "OUT_OF_STOCK"}
                        THEN [alerts[i] EXCEPT !.is_resolved = TRUE]
                        ELSE alerts[i]]
                /\ req' = [req EXCEPT ![w] = AfterSignal(r)]
    /\ UNCHANGED <<products, movements, created, maint, staff_members>>

AlertCreateReopens(w) ==
    /\ req[w].pc = "alert_create"
    /\ LET r == req[w]
           wanted == WantedAlert(r.instance)
           resolved == {i \in 1..Len(alerts) :
                            /\ alerts[i].product = r.product
                            /\ alerts[i].alert_type = wanted
                            /\ alerts[i].is_resolved}
       IN  /\ alerts' =
                IF resolved # {}
                THEN [alerts EXCEPT ![CHOOSE i \in resolved : TRUE].is_resolved = FALSE]
                ELSE Append(alerts,
                        [product |-> r.product, alert_type |-> wanted,
                         is_resolved |-> FALSE, resolved_by |-> Null,
                         resolved_at |-> Null])
           /\ req' = [req EXCEPT ![w] = AfterSignal(r)]
    /\ UNCHANGED <<products, movements, created, maint, staff_members>>

\* check_stock_alerts, the INSERT of get_or_create
AlertCreate(w) ==
    /\ req[w].pc = "alert_create"
    /\ LET r == req[w]
       IN  /\ alerts' = Append(alerts,
                    [product |-> r.product, alert_type |-> WantedAlert(r.instance),
                     is_resolved |-> FALSE, resolved_by |-> Null, resolved_at |-> Null])
           /\ req' = [req EXCEPT ![w] = AfterSignal(r)]
    /\ UNCHANGED <<products, movements, created, maint, staff_members>>

\* super().save(): the INSERT of the ledger row
InsertRow(w) ==
    /\ req[w].pc = "insert_row"
    /\ LET r == req[w]
       IN  /\ movements' = Append(movements,
                    [id |-> r.id, product |-> r.product, business |-> r.business,
                     performed_by |-> r.performed_by,
                     movement_type |-> r.movement_type, quantity |-> r.quantity,
                     balance_after |-> r.balance_after])
           /\ req' = [req EXCEPT ![w] =
                    [pc |-> "done", op |-> "create", status |-> 201, error |-> "ok"]]
    /\ UNCHANGED <<products, alerts, created, maint, staff_members>>

\* super().save() raising a database error: no transaction encloses save(), so
\* the product row written before stays written
InsertFails(w) ==
    /\ req[w].pc = "insert_row"
    /\ req' = [req EXCEPT ![w] =
            [pc |-> "done", op |-> "create", status |-> 500, error |-> "database"]]
    /\ UNCHANGED <<products, movements, alerts, created, maint, staff_members>>

\* ------------------------------------------------------------- maintenance
\* the stock_movements row with this id, as get_object() finds it
RowIndex(id) == CHOOSE i \in 1..Len(movements) : movements[i].id = id

RowIds == {movements[i].id : i \in 1..Len(movements)}

\* PUT stock-movements/<id>/ (ModelViewSet.update): the same serializer validates
\* the body, then save() runs with is_new false and writes the row only
UpdateMovement(w, id, p, movement_type, quantity, serial_number, batch_number, reason) ==
    /\ Free(w)
    /\ maint < MaxMaint
    /\ id \in RowIds
    /\ LET instance == products[p]
           error == Validate(instance.tracking_type, instance.current_quantity,
                             movement_type, quantity, serial_number, batch_number, reason)
       IN  IF error # "ok"
           THEN /\ req' = [req EXCEPT ![w] =
                        [pc |-> "done", op |-> "update", status |-> 400, error |-> error]]
                /\ UNCHANGED <<movements, maint>>
           ELSE /\ movements' = [movements EXCEPT ![RowIndex(id)] =
                        [@ EXCEPT !.product = p, !.movement_type = movement_type,
                                  !.quantity = quantity]]
                /\ req' = [req EXCEPT ![w] =
                        [pc |-> "done", op |-> "update", status |-> 200, error |-> "ok"]]
                /\ maint' = maint + 1
    /\ UNCHANGED <<products, alerts, created, staff_members>>

\* DELETE stock-movements/<id>/ (ModelViewSet.destroy)
DeleteMovement(w, id) ==
    /\ Free(w)
    /\ maint < MaxMaint
    /\ id \in RowIds
    /\ movements' = [i \in 1..(Len(movements) - 1) |->
            IF i < RowIndex(id) THEN movements[i] ELSE movements[i + 1]]
    /\ req' = [req EXCEPT ![w] = [pc |-> "done", op |-> "delete", status |-> 204]]
    /\ maint' = maint + 1
    /\ UNCHANGED <<products, alerts, created, staff_members>>

\* POST products/<id>/recalculate_stock/: get_object() fetches the product row.
\* The request notes whether the response this worker gave last was to a
\* recalculate_stock of the same product, i.e. whether it repeats that call
RecalculateGet(w, p) ==
    /\ Free(w)
    /\ maint < MaxMaint
    /\ req' = [req EXCEPT ![w] =
            [pc |-> "recalc_read", op |-> "reconcile", product |-> p,
             instance |-> products[p],
             again |-> (/\ req[w].pc = "done"
                        /\ req[w].op = "reconcile"
                        /\ req[w].product = p)]]
    /\ maint' = maint + 1
    /\ UNCHANGED <<products, movements, alerts, created, staff_members>>

RecalculateReadAlwaysFixes(w) ==
    /\ req[w].pc = "recalc_read"
    /\ LET r == req[w]
           calculated_quantity == Replay(movements, r.product)
       IN  req' = [req EXCEPT ![w] =
                [pc |-> "recalc_save", op |-> "reconcile", product |-> r.product,
                 instance |-> r.instance,
                 calculated_quantity |-> calculated_quantity]]
    /\ UNCHANGED <<products, movements, alerts, created, maint, staff_members>>

\* recalculate_stock: the query over the product's rows, the loop, the comparison
RecalculateRead(w) ==
    /\ req[w].pc = "recalc_read"
    /\ LET r == req[w]
           calculated_quantity == Replay(movements, r.product)
       IN  req' = [req EXCEPT ![w] =
                IF r.instance.current_quantity # calculated_quantity
                THEN [pc |-> "recalc_save", op |-> "reconcile", product |-> r.product,
                      instance |-> r.instance,
                      calculated_quantity |-> calculated_quantity]
                ELSE [pc |-> "done", op |-> "reconcile", product |-> r.product,
                      status |-> 200, fixed |-> FALSE, again |-> r.again,
                      current_quantity |-> calculated_quantity]]
    /\ UNCHANGED <<products, movements, alerts, created, maint, staff_members>>

RecalculateSaveRewritesBalance(w) ==
    /\ req[w].pc = "recalc_save"
    /\ LET r == req[w]
           product == [r.instance EXCEPT !.current_quantity = r.calculated_quantity]
       IN  /\ products' = [products EXCEPT
                    ![r.product].current_quantity = r.calculated_quantity]
           /\ movements' = [i \in 1..Len(movements) |->
                    IF movements[i].product = r.product
                    THEN [movements[i] EXCEPT
                            !.balance_after = Replay(SubSeq(movements, 1, i), r.product)]
                    ELSE movements[i]]
           /\ req' = [req EXCEPT ![w] =
                    [pc |-> "signal", op |-> "reconcile", product |-> r.product,
                     instance |-> product,
                     old_quantity |-> product.current_quantity,
                     new_quantity |-> r.calculated_quantity]]
    /\ UNCHANGED <<alerts, created, maint, staff_members>>

\* recalculate_stock: the assignment, product.save(update_fields=["current_quantity"])
\* and the result dict, built after the assignment
RecalculateSave(w) ==
    /\ req[w].pc = "recalc_save"
    /\ LET r == req[w]
           product == [r.instance EXCEPT !.current_quantity = r.calculated_quantity]
       IN  /\ products' = [products EXCEPT
                    ![r.product].current_quantity = r.calculated_quantity]
           /\ req' = [req EXCEPT ![w] =
                    [pc |-> "signal", op |-> "reconcile", product |-> r.product,
                     instance |-> product,
                     old_quantity |-> product.current_quantity,
                     new_quantity |-> r.calculated_quantity]]
    /\ UNCHANGED <<movements, alerts, created, maint, staff_members>>

\* ------------------------------------------------------------------ alerts
ResolveNoCheck(w, user, business, i) ==
    /\ Free(w)
    /\ i \in 1..Len(alerts)
    /\ LET alert == alerts[i]
       IN  req' = [req EXCEPT ![w] =
                IF ~HasBusinessPermission(user, business)
                THEN [pc |-> "done", op |-> "resolve", status |-> 403,
                      error |-> "permission_denied"]
                ELSE IF \/ ProductBusiness(alert.product) \notin UserBusinesses(user)
                        \/ ProductBusiness(alert.product) # business
                THEN [pc |-> "done", op |-> "resolve", status |-> 404,
                      error |-> "not_found"]
                ELSE [pc |-> "done", op |-> "resolve", status |-> 500,
                      error |-> "NameError"]]
    /\ UNCHANGED <<products, movements, alerts, created, maint, staff_members>>

\* POST stock-alerts/<id>/resolve/?business=<business>: check_permissions(), then
\* get_object() on the queryset of the caller's businesses narrowed to the one
\* named; a resolved alert answers 400. For an open one the view sets
\* is_resolved and resolved_by on the instance and then evaluates timezone.now():
\* views.py imports no timezone, the NameError ends the request before
\* alert.save(), so nothing is written
Resolve(w, user, business, i) ==
    /\ Free(w)
    /\ i \in 1..Len(alerts)
    /\ LET alert == alerts[i]
       IN  req' = [req EXCEPT ![w] =
                IF ~HasBusinessPermission(user, business)
                THEN [pc |-> "done", op |-> "resolve", status |-> 403,
                      error |-> "permission_denied"]
                ELSE IF \/ ProductBusiness(alert.product) \notin UserBusinesses(user)
                        \/ ProductBusiness(alert.product) # business
                THEN [pc |-> "done", op |-> "resolve", status |-> 404,
                      error |-> "not_found"]
                ELSE IF alert.is_resolved
                THEN [pc |-> "done", op |-> "resolve", status |-> 400,
                      error |-> "already_resolved"]
                ELSE [pc |-> "done", op |-> "resolve", status |-> 500,
                      error |-> "NameError"]]
    /\ UNCHANGED <<products, movements, alerts, created, maint, staff_members>>

\* ------------------------------------------------------------------- staff
\* StaffMemberViewSet.get_queryset: the memberships of the businesses the caller
\* owns or manages staff in
VisibleStaff(caller) ==
    {staff_member \in staff_members :
        \/ BusinessOwner(staff_member.business) = caller
        \/ \E m \in staff_members :
                /\ m.user = caller
                /\ m.business = staff_member.business
                /\ m.is_active
                /\ can_manage_staff(m.role)}

\* the response of a staff request, and the table it leaves
StaffResponse(w, status, table) ==
    /\ req' = [req EXCEPT ![w] = [pc |-> "done", op |-> "staff", status |-> status]]
    /\ staff_members' = table
    /\ UNCHANGED <<products, movements, alerts, created, maint>>

\* PATCH staff/<id>/update_role/
UpdateRole(w, caller, staff_member, role) ==
    /\ Free(w)
    /\ staff_member \in staff_members
    /\ IF staff_member \notin VisibleStaff(caller)
       THEN StaffResponse(w, 404, staff_members)
       ELSE IF BusinessOwner(staff_member.business) = staff_member.user
       THEN StaffResponse(w, 400, staff_members)
       ELSE IF role = OWNER
       THEN StaffResponse(w, 400, staff_members)
       ELSE StaffResponse(w, 200,
                (staff_members \ {staff_member})
                    \cup {[staff_member EXCEPT !.role = role]})

\* POST staff/<id>/deactivate/
Deactivate(w, caller, staff_member) ==
    /\ Free(w)
    /\ staff_member \in staff_members
    /\ IF staff_member \notin VisibleStaff(caller)
       THEN StaffResponse(w, 404, staff_members)
       ELSE IF BusinessOwner(staff_member.business) = staff_member.user
       THEN StaffResponse(w, 400, staff_members)
       ELSE StaffResponse(w, 200,
                (staff_members \ {staff_member})
                    \cup {[staff_member EXCEPT !.is_active = FALSE]})

\* POST staff/<id>/activate/
Activate(w, caller, staff_member) ==
    /\ Free(w)
    /\ staff_member \in staff_members
    /\ IF staff_member \notin VisibleStaff(caller)
       THEN StaffResponse(w, 404, staff_members)
       ELSE StaffResponse(w, 200,
                (staff_members \ {staff_member})
                    \cup {[staff_member EXCEPT !.is_active = TRUE]})

\* PATCH staff/<id>/ (ModelViewSet.partial_update): of the fields of
\* StaffMemberDetailSerializer only is_active is writable; user, business and
\* role are read-only nested serializers
UpdateStaff(w, caller, staff_member, is_active) ==
    /\ Free(w)
    /\ staff_member \in staff_members
    /\ IF staff_member \notin VisibleStaff(caller)
       THEN StaffResponse(w, 404, staff_members)
       ELSE StaffResponse(w, 200,
                (staff_members \ {staff_member})
                    \cup {[staff_member EXCEPT !.is_active = is_active]})

\* DELETE staff/<id>/ (ModelViewSet.destroy)
DestroyStaff(w, caller, staff_member) ==
    /\ Free(w)
    /\ staff_member \in staff_members
    /\ IF staff_member \notin VisibleStaff(caller)
       THEN StaffResponse(w, 404, staff_members)
       ELSE StaffResponse(w, 204, staff_members \ {staff_member})

\* ---------------------------------------------------------- specifications
Present == {TRUE, FALSE}

\* POST stock-movements/ by a manager of the product's business, with a body
\* drawn from the given sets
Create(w, types, quantities, supplied) ==
    \E p \in DOMAIN products, movement_type \in types, quantity \in quantities,
       serial_number \in supplied, batch_number \in supplied, reason \in Present :
        CreateValidate(w, "u1", ProductBusiness(p), p, movement_type, quantity,
                       serial_number, batch_number, reason)

\* the statements that carry an accepted append to its response
AppendSteps(w) ==
    \/ SaveProduct(w)
    \/ CheckStockAlerts(w)
    \/ AlertCreate(w)
    \/ InsertRow(w)

Maintenance(w, types, quantities) ==
    \/ \E id \in RowIds, p \in DOMAIN products, movement_type \in types,
          quantity \in quantities, reason \in Present :
            UpdateMovement(w, id, p, movement_type, quantity, TRUE, TRUE, reason)
    \/ \E id \in RowIds : DeleteMovement(w, id)
    \/ \E p \in DOMAIN products : RecalculateGet(w, p)
    \/ RecalculateRead(w)
    \/ RecalculateSave(w)

Quantities == {0, 1, 2}

RoundTripQuantities == {-3, 0, 3, 10}

\* appends only, served by one worker, on one product of every tracking type
InitAppend == InitWith({"p1"}, TRACKING_CHOICES, {0, 1})

NextAppend ==
    \/ Create("w1", MOVEMENT_TYPES, Quantities, Present)
    \/ AppendSteps("w1")

SpecAppend == InitAppend /\ [][NextAppend]_vars

\* the whole API served by one worker: requests run one after the other, and the
\* database may fail the INSERT of a ledger row
Init == InitWith({"p1"}, {"NONE"}, {1})

Next ==
    \/ Create("w1", MOVEMENT_TYPES, RoundTripQuantities, {TRUE})
    \/ AppendSteps("w1")
    \/ InsertFails("w1")
    \/ Maintenance("w1", {STOCK_IN, SALE}, {0, 3})

Spec == Init /\ [][Next]_vars

\* the alert life cycle under one worker: appends, failed inserts, reconciliation
\* and manual resolution on a product to be reordered at 2 (or never, at 0). The
\* product is new, or has seen STOCK_IN 1 and SALE 1, which opened a LOW_STOCK and
\* then an OUT_OF_STOCK alert
AlertQuantities == {1, 3}

InitAlert ==
    /\ \/ /\ products \in [{"p1"} -> [current_quantity : {0}, reorder_level : {0, 2},
                                      tracking_type : {"NONE"}]]
          /\ movements = <<>>
          /\ alerts = <<>>
       \/ /\ products = [p \in {"p1"} |->
                [current_quantity |-> 0, reorder_level |-> 2, tracking_type |-> "NONE"]]
          /\ movements =
                <<[id |-> -1, product |-> "p1", business |-> "b1", performed_by |-> "u1",
                   movement_type |-> STOCK_IN, quantity |-> 1, balance_after |-> 1],
                  [id |-> 0, product |-> "p1", business |-> "b1", performed_by |-> "u1",
                   movement_type |-> SALE, quantity |-> 1, balance_after |-> 0]>>
          /\ alerts =
                <<[product |-> "p1", alert_type |-> "LOW_STOCK", is_resolved |-> FALSE,
                   resolved_by |-> Null, resolved_at |-> Null],
                  [product |-> "p1", alert_type |-> "OUT_OF_STOCK", is_resolved |-> FALSE,
                   resolved_by |-> Null, resolved_at |-> Null]>>
    /\ req = [w \in Workers |-> Idle]
    /\ created = 0
    /\ maint = 0
    /\ staff_members = StaffMembers

NextAlert ==
    \/ Create("w1", {STOCK_IN, SALE, ADJUSTMENT}, AlertQuantities, {TRUE})
    \/ AppendSteps("w1")
    \/ InsertFails("w1")
    \/ \E p \in DOMAIN products : RecalculateGet("w1", p)
    \/ RecalculateRead("w1")
    \/ RecalculateSave("w1")
    \/ \E user \in {"u1", "u2"}, i \in 1..Len(alerts) : Resolve("w1", user, "b1", i)

SpecAlert == InitAlert /\ [][NextAlert]_vars

\* two tenants: appends by every user, naming any business or none, on a product
\* of b1 and a product of b2
TenantQuantities == {0, 3}

InitTenant == InitWith({"p1", "p2"}, {"NONE"}, {0})

NextTenant ==
    \/ \E user \in Users, business \in Businesses \cup {Null}, p \in DOMAIN products,
          movement_type \in {STOCK_IN, SALE}, quantity \in TenantQuantities :
            CreateValidate("w1", user, business, p, movement_type, quantity,
                           TRUE, TRUE, TRUE)
    \/ AppendSteps("w1")

SpecTenant == InitTenant /\ [][NextTenant]_vars

\* two workers, each serving one append against a product that holds 8 units
\* and is to be reordered at 5
InitRace ==
    /\ products = [p \in {"p1"} |->
            [current_quantity |-> 8, reorder_level |-> 5, tracking_type |-> "NONE"]]
    /\ movements = <<[id |-> 0, product |-> "p1", business |-> "b1",
                      performed_by |-> "u1", movement_type |-> STOCK_IN,
                      quantity |-> 8, balance_after |-> 8]>>
    /\ alerts = <<>>
    /\ req = [w \in Workers |-> Idle]
    /\ created = 0
    /\ maint = 0
    /\ staff_members = StaffMembers

NextRace ==
    \E w \in Workers :
        \/ req[w].pc = "idle" /\ Create(w, {STOCK_IN, SALE}, {3, 5}, {TRUE})
        \/ AppendSteps(w)

SpecRace == InitRace /\ [][NextRace]_vars

\* one worker serving one append and the other one recalculate_stock, against
\* the product that holds 8 units
NextReconcileRace ==
    \/ req["w1"].pc = "idle" /\ Create("w1", {STOCK_IN, SALE}, {3, 5}, {TRUE})
    \/ \E w \in Workers : AppendSteps(w)
    \/ req["w2"].pc = "idle" /\ RecalculateGet("w2", "p1")
    \/ RecalculateRead("w2")
    \/ RecalculateSave("w2")

SpecReconcileRace == InitRace /\ [][NextReconcileRace]_vars

\* staff management by every user on every membership, served by one worker
InitStaff == InitWith({"p1"}, {"NONE"}, {0})

NextStaff ==
    \/ \E caller \in Users, staff_member \in staff_members, role \in ROLE_CHOICES :
            UpdateRole("w1", caller, staff_member, role)
    \/ \E caller \in Users, staff_member \in staff_members :
            Deactivate("w1", caller, staff_member)
    \/ \E caller \in Users, staff_member \in staff_members :
            Activate("w1", caller, staff_member)
    \/ \E caller \in Users, staff_member \in staff_members, is_active \in {TRUE, FALSE} :
            UpdateStaff("w1", caller, staff_member, is_active)
    \/ \E caller \in Users, staff_member \in staff_members :
            DestroyStaff("w1", caller, staff_member)

SpecStaff == InitStaff /\ [][NextStaff]_vars

\* ------------------------------------------------------------------ claims
AllFree == \A w \in Workers : Free(w)

\* the sign rule as the specification states it
Inbound == {"STOCK_IN", "RETURN", "TRANSFER_IN"}

Signed(m) == IF m.movement_type \in Inbound THEN m.quantity ELSE 0 - m.quantity

RECURSIVE SignedSum(_, _)
SignedSum(rows, p) ==
    IF rows = <<>> THEN 0
    ELSE (IF Head(rows).product = p THEN Signed(Head(rows)) ELSE 0)
         + SignedSum(Tail(rows), p)

\* C1: with requests served one after the other and only appends made, whenever
\* no append is in progress each product's current_quantity equals the signed sum
\* of its ledger rows (+ for STOCK_IN, RETURN, TRANSFER_IN, - for the others)
C1_QuantityIsLedgerSum ==
    AllFree =>
        \A p \in DOMAIN products :
            products[p].current_quantity = SignedSum(movements, p)

C1_Witness ==
    /\ AllFree
    /\ Len(movements) = 2
    /\ movements[1].movement_type = RETURN
    /\ movements[2].movement_type = ADJUSTMENT
    /\ products["p1"].current_quantity = SignedSum(movements, "p1")

\* the rows can be put in an order in which each balance_after continues the
\* balance_after of the row before it: no two were computed from the same balance
Chained(rows) ==
    \E f \in [1..Len(rows) -> 1..Len(rows)] :
        /\ \A i, j \in 1..Len(rows) : f[i] = f[j] => i = j
        /\ \A i \in 2..Len(rows) :
                rows[f[i]].balance_after =
                    rows[f[i - 1]].balance_after + Signed(rows[f[i]])

\* C2: once two concurrent appends on one product have both been answered,
\* current_quantity equals the signed sum of the ledger and the rows carry
\* balance_after values of one serial order
C2_AppendsSerialized ==
    (\A w \in Workers : req[w].pc = "done") =>
        /\ products["p1"].current_quantity = SignedSum(movements, "p1")
        /\ Chained(movements)

\* C3: once two concurrent SALE appends of 5 against a balance of 8 have both
\* been answered, exactly one was accepted, the balance is 3 and one row was added
C3_TwoSalesOfFive ==
    (/\ \A w \in Workers : req[w].pc = "done"
     /\ \A i \in 2..Len(movements) :
            movements[i].movement_type = SALE /\ movements[i].quantity = 5) =>
        /\ Cardinality({w \in Workers : req[w].status = 201}) = 1
        /\ Cardinality({w \in Workers : req[w].status = 400}) = 1
        /\ products["p1"].current_quantity = 3
        /\ Len(movements) = 2

\* the balance the product had when the append in r began, from the instance's
\* own balance_after and quantity
PreAppendQuantity(r) ==
    IF r.movement_type \in Inbound
    THEN r.balance_after - r.quantity
    ELSE r.balance_after + r.quantity

\* C4: an append whose ledger-row insert fails leaves the product's
\* current_quantity as it was before the append, and adds no ledger row
C4_AllOrNothing ==
    [][\A w \in Workers :
        (req[w].pc = "insert_row" /\ req'[w].pc = "done" /\ req'[w].status = 500) =>
            /\ movements' = movements
            /\ products'[req[w].product].current_quantity = PreAppendQuantity(req[w])
      ]_vars

\* C5: every ledger row of a state is a row of the next state, with the same
\* kind, quantity and balance_after
C5_LedgerImmutable ==
    [][\A i \in 1..Len(movements) :
        \E j \in 1..Len(movements') : movements'[j] = movements[i]]_vars

\* the kinds the specification calls outbound for the sufficient-stock rule
Outbound == {"SALE", "DAMAGE", "THEFT", "TRANSFER_OUT"}

\* rules 1 to 5 of the validator hold for a candidate
OtherRulesHold(tracking_type, movement_type, quantity, serial_number, batch_number, reason) ==
    /\ quantity > 0
    /\ tracking_type \in {"SERIAL", "BOTH"} => serial_number
    /\ tracking_type \in {"BATCH", "BOTH"} => batch_number
    /\ movement_type \in {"RETURN", "DAMAGE", "THEFT", "ADJUSTMENT"} => reason

\* C6: an append of an outbound kind whose quantity exceeds the product's
\* current_quantity is answered 400 and constructs no ledger row; the error is the
\* insufficient-stock one whenever the candidate satisfies the other rules
C6_InsufficientStockRejected ==
    [][\A w \in Workers :
        (Free(w) /\ req'[w] # req[w]) =>
            \A p \in DOMAIN products, movement_type \in Outbound,
               quantity \in Quantities, serial_number \in Present,
               batch_number \in Present, reason \in Present :
                (/\ quantity > products[p].current_quantity
                 /\ CreateValidate(w, "u1", ProductBusiness(p), p, movement_type,
                                   quantity, serial_number, batch_number, reason)) =>
                    /\ req'[w].pc = "done"
                    /\ req'[w].status = 400
                    /\ movements' = movements
                    /\ created' = created
                    /\ OtherRulesHold(products[p].tracking_type, movement_type,
                                      quantity, serial_number, batch_number, reason)
                            => req'[w].error = "insufficient_stock"
      ]_vars

\* a candidate of quantity balance + 1 has just been refused for lack of stock
C6_Witness ==
    /\ req["w1"].pc = "done"
    /\ req["w1"].status = 400
    /\ req["w1"].error = "insufficient_stock"
    /\ products["p1"].current_quantity = 1
    /\ Len(movements) = 1

\* C7: a step that answers a candidate movement with a validation error changes
\* no product row, no ledger row and no alert
C7_RejectionMutatesNothing ==
    [][\A w \in Workers :
        (req'[w] # req[w] /\ req'[w].pc = "done" /\ req'[w].status = 400) =>
            UNCHANGED <<products, movements, alerts>>
      ]_vars

\* a candidate has been refused on a product that already has stock, a ledger
\* row and an open alert
C7_Witness ==
    /\ req["w1"].pc = "done"
    /\ req["w1"].status = 400
    /\ req["w1"].error = "reason_required"
    /\ Len(movements) = 1
    /\ Len(alerts) = 1
    /\ products["p1"].current_quantity = 1

\* C8: the step that saves the product in an append computes balance_after from
\* the current_quantity the product has when the append runs, + quantity for an
\* inbound kind and - quantity otherwise, and stores that value as the new
\* current_quantity; the row inserted carries it. STOCK_IN 10 then SALE 3 on an
\* empty product give current_quantity 7 and rows with balance_after 10 and 7
C8_BalanceAfter ==
    /\ [][\A w \in Workers :
            /\ (req[w].pc = "save_product" /\ req'[w].pc = "signal") =>
                    /\ req'[w].balance_after =
                            products[req[w].product].current_quantity
                            + Signed([movement_type |-> req[w].movement_type,
                                      quantity |-> req[w].quantity])
                    /\ products'[req[w].product].current_quantity
                            = req'[w].balance_after
            /\ (req[w].pc = "insert_row" /\ req'[w].status = 201) =>
                    /\ Len(movements') = Len(movements) + 1
                    /\ movements'[Len(movements')].balance_after = req[w].balance_after
                    /\ movements'[Len(movements')].balance_after
                            = products'[req[w].product].current_quantity
         ]_vars
    /\ [](( /\ AllFree /\ created = 2 /\ maint = 0 /\ Len(movements) = 2
            /\ movements[1].movement_type = STOCK_IN /\ movements[1].quantity = 10
            /\ movements[2].movement_type = SALE /\ movements[2].quantity = 3) =>
                /\ products["p1"].current_quantity = 7
                /\ movements[1].balance_after = 10
                /\ movements[2].balance_after = 7)

\* STOCK_IN 10 and SALE 3 have been appended to the empty product
C8_Witness ==
    /\ AllFree /\ created = 2 /\ maint = 0 /\ Len(movements) = 2
    /\ movements[1].movement_type = STOCK_IN /\ movements[1].quantity = 10
    /\ movements[2].movement_type = SALE /\ movements[2].quantity = 3
    /\ movements[2].balance_after = 7
    /\ products["p1"].current_quantity = 7

\* C9: a SALE of exactly the product's positive current_quantity is accepted by
\* the validator, and when its row is inserted the product's current_quantity is 0
\* and the product has an unresolved OUT_OF_STOCK alert
C9_SaleOfWholeBalance ==
    [][\A w \in Workers :
        /\ (Free(w) /\ req'[w] # req[w]) =>
                \A p \in DOMAIN products, quantity \in RoundTripQuantities,
                   serial_number \in Present, batch_number \in Present,
                   reason \in Present :
                    (/\ quantity > 0
                     /\ quantity = products[p].current_quantity
                     /\ OtherRulesHold(products[p].tracking_type, SALE, quantity,
                                       serial_number, batch_number, reason)
                     /\ CreateValidate(w, "u1", ProductBusiness(p), p, SALE, quantity,
                                       serial_number, batch_number, reason)) =>
                        req'[w].pc = "save_product"
        /\ (/\ req[w].pc = "insert_row"
            /\ req[w].movement_type = SALE
            /\ req[w].balance_after = 0
            /\ req'[w].status = 201) =>
                /\ products'[req[w].product].current_quantity = 0
                /\ \E i \in 1..Len(alerts') :
                        /\ alerts'[i].product = req[w].product
                        /\ alerts'[i].alert_type = "OUT_OF_STOCK"
                        /\ ~alerts'[i].is_resolved
      ]_vars

\* a SALE of the whole balance has been answered 201
C9_Witness ==
    /\ req["w1"].pc = "done" /\ req["w1"].op = "create" /\ req["w1"].status = 201
    /\ Len(movements) = 2
    /\ movements[1].movement_type = STOCK_IN /\ movements[1].quantity = 3
    /\ movements[2].movement_type = SALE /\ movements[2].quantity = 3
    /\ movements[2].balance_after = 0
    /\ products["p1"].current_quantity = 0
    /\ Unresolved("p1", "OUT_OF_STOCK") # {}

\* C10: a recalculate_stock request is answered 200 whatever the ledger holds,
\* and when it is answered the product's current_quantity equals the replay of
\* its ledger from zero (0 for a product without rows)
C10_ReconcileReplaysLedger ==
    [][\A w \in Workers :
        (/\ Busy(w)
         /\ req[w].op = "reconcile"
         /\ req'[w].pc = "done") =>
            /\ req'[w].status = 200
            /\ products'[req[w].product].current_quantity
                    = SignedSum(movements', req[w].product)
      ]_vars

\* a reconcile has corrected a drifted quantity against a ledger that holds a row
C10_Witness ==
    /\ req["w1"].pc = "done"
    /\ req["w1"].op = "reconcile"
    /\ req["w1"].fixed
    /\ Len(movements) = 1
    /\ movements[1].movement_type = SALE
    /\ products["p1"].current_quantity = 0 - movements[1].quantity

\* a reconcile has corrected a drifted quantity against an empty ledger
C10_WitnessEmpty ==
    /\ req["w1"].pc = "done"
    /\ req["w1"].op = "reconcile"
    /\ req["w1"].fixed
    /\ movements = <<>>
    /\ products["p1"].current_quantity = 0

\* C11: when recalculate_stock finds the cached quantity different from the
\* replayed one, the result it builds reports old_quantity = the product's
\* current_quantity before the overwrite and new_quantity = the replayed value
C11_ReconcileReportsOldAndNew ==
    [][\A w \in Workers :
        (req[w].pc = "recalc_save" /\ req'[w] # req[w]) =>
            /\ req'[w].old_quantity = products[req[w].product].current_quantity
            /\ req'[w].new_quantity = SignedSum(movements, req[w].product)
      ]_vars

\* C12: a recalculate_stock that repeats the worker's previous call on the same
\* product, nothing having been served in between, reports fixed = FALSE with the
\* quantity the first call left, and changes no product
C12_ReconcileIdempotent ==
    [][\A w \in Workers :
        (req[w].pc = "recalc_read" /\ req[w].again /\ req'[w] # req[w]) =>
            /\ req'[w].pc = "done"
            /\ ~req'[w].fixed
            /\ req'[w].current_quantity = products[req[w].product].current_quantity
            /\ products' = products
      ]_vars

\* a second call has answered after a first call that corrected a drift
C12_Witness ==
    /\ req["w1"].pc = "done"
    /\ req["w1"].op = "reconcile"
    /\ ~req["w1"].fixed
    /\ req["w1"].again
    /\ maint = 2
    /\ movements = <<>>
    /\ created = 1
    /\ products["p1"].current_quantity = 0

\* a second call has answered after a first call that found nothing to correct
C12_WitnessAccurate ==
    /\ req["w1"].pc = "done"
    /\ req["w1"].op = "reconcile"
    /\ ~req["w1"].fixed
    /\ req["w1"].again
    /\ maint = 2
    /\ Len(movements) = 1
    /\ products["p1"].current_quantity = 3

\* the unresolved alerts of a product and kind in an alert table
OpenAlerts(rows, product, alert_type) ==
    {i \in 1..Len(rows) :
        /\ rows[i].product = product
        /\ rows[i].alert_type = alert_type
        /\ ~rows[i].is_resolved}

\* C13: in every state, also those reached by alert evaluations of concurrent
\* requests on one product, a product has at most one unresolved alert of a kind
C13_OneOpenAlertPerKind ==
    \A p \in DOMAIN products, alert_type \in {"LOW_STOCK", "OUT_OF_STOCK"} :
        Cardinality(OpenAlerts(alerts, p, alert_type)) <= 1

\* the post_save handler run for worker w's product save returns in this step
HandlerReturns(w) ==
    /\ req[w].pc \in {"signal", "alert_create"}
    /\ req'[w] # req[w]
    /\ req'[w].pc \notin {"signal", "alert_create"}

\* C14: when the handler run after a product save (of an append or of a
\* recalculate_stock correction) returns and the product's current_quantity is 0,
\* the product has an unresolved OUT_OF_STOCK alert; when one was open as the
\* handler began, the handler returns at once and the alert table is unchanged
C14_OutOfStockAlertEnsured ==
    [][\A w \in Workers :
        /\ (HandlerReturns(w) /\ products'[req[w].product].current_quantity = 0) =>
                OpenAlerts(alerts', req[w].product, "OUT_OF_STOCK") # {}
        /\ (/\ req[w].pc = "signal"
            /\ req'[w] # req[w]
            /\ products[req[w].product].current_quantity = 0
            /\ OpenAlerts(alerts, req[w].product, "OUT_OF_STOCK") # {}) =>
                /\ alerts' = alerts
                /\ HandlerReturns(w)
      ]_vars

\* an append has brought the balance back to 0 while the OUT_OF_STOCK alert opened
\* earlier was still open: the table holds that one alert and the LOW_STOCK one
C14_Witness ==
    /\ req["w1"].pc = "done" /\ req["w1"].op = "create" /\ req["w1"].status = 201
    /\ Len(movements) = 4
    /\ movements[3].movement_type = STOCK_IN
    /\ movements[4].movement_type = SALE
    /\ products["p1"].current_quantity = 0
    /\ Len(alerts) = 2
    /\ Cardinality(OpenAlerts(alerts, "p1", "OUT_OF_STOCK")) = 1

\* a recalculate_stock correction to 0 has opened an OUT_OF_STOCK alert
C14_WitnessReconcile ==
    /\ req["w1"].pc = "done" /\ req["w1"].op = "reconcile" /\ req["w1"].fixed
    /\ movements = <<>>
    /\ products["p1"].current_quantity = 0
    /\ Cardinality(OpenAlerts(alerts, "p1", "OUT_OF_STOCK")) = 1

\* C15: when the handler run after a product save returns and the product has
\* 0 < current_quantity <= reorder_level with reorder_level > 0, the product has
\* an unresolved LOW_STOCK alert
C15_LowStockAlertEnsured ==
    [][\A w \in Workers :
        (/\ HandlerReturns(w)
         /\ 0 < products'[req[w].product].current_quantity
         /\ products'[req[w].product].current_quantity
                <= products'[req[w].product].reorder_level
         /\ products'[req[w].product].reorder_level > 0) =>
            OpenAlerts(alerts', req[w].product, "LOW_STOCK") # {}
      ]_vars

\* an append has left the balance at the reorder level, and a LOW_STOCK alert open
C15_Witness ==
    /\ req["w1"].pc = "done" /\ req["w1"].op = "create" /\ req["w1"].status = 201
    /\ products["p1"].reorder_level = 2
    /\ products["p1"].current_quantity = 2
    /\ movements[Len(movements)].balance_after = 2
    /\ Cardinality(OpenAlerts(alerts, "p1", "LOW_STOCK")) = 1

\* a recalculate_stock correction has left the balance at 1, and a LOW_STOCK
\* alert open
C15_WitnessReconcile ==
    /\ req["w1"].pc = "done" /\ req["w1"].op = "reconcile" /\ req["w1"].fixed
    /\ products["p1"].reorder_level = 2
    /\ products["p1"].current_quantity = 1
    /\ Cardinality(OpenAlerts(alerts, "p1", "LOW_STOCK")) = 1

\* C16: when the handler run after a product save returns and the product has
\* current_quantity > reorder_level, or a non-zero current_quantity with
\* reorder_level = 0, the product has no unresolved LOW_STOCK or OUT_OF_STOCK alert
C16_AlertsResolvedAboveReorder ==
    [][\A w \in Workers :
        (/\ HandlerReturns(w)
         /\ \/ products'[req[w].product].current_quantity
                    > products'[req[w].product].reorder_level
            \/ /\ products'[req[w].product].current_quantity # 0
               /\ products'[req[w].product].reorder_level = 0) =>
            /\ OpenAlerts(alerts', req[w].product, "LOW_STOCK") = {}
            /\ OpenAlerts(alerts', req[w].product, "OUT_OF_STOCK") = {}
      ]_vars

\* a STOCK_IN above the reorder level has resolved the LOW_STOCK and the
\* OUT_OF_STOCK alert that were open
C16_Witness ==
    /\ req["w1"].pc = "done" /\ req["w1"].op = "create" /\ req["w1"].status = 201
    /\ products["p1"].reorder_level = 2
    /\ products["p1"].current_quantity = 3
    /\ Len(alerts) = 2
    /\ alerts[1].alert_type = "LOW_STOCK" /\ alerts[1].is_resolved
    /\ alerts[2].alert_type = "OUT_OF_STOCK" /\ alerts[2].is_resolved

\* an ADJUSTMENT has left a negative balance on a product never to be reordered
C16_WitnessNegative ==
    /\ req["w1"].pc = "done" /\ req["w1"].op = "create" /\ req["w1"].status = 201
    /\ products["p1"].reorder_level = 0
    /\ products["p1"].current_quantity < 0
    /\ OpenAlerts(alerts, "p1", "OUT_OF_STOCK") = {}
    /\ Len(alerts) = 1

\* the caller manages the inventory of the business named, and alert i of the
\* table belongs to that business
CanResolve(user, business, i) ==
    /\ HasBusinessPermission(user, business)
    /\ ProductBusiness(alerts[i].product) = business

\* C17: a resolve request on an alert that is already resolved, made by a caller
\* who manages the inventory of the alert's business, is answered 400 "already
\* resolved" and leaves the alert table (is_resolved, resolved_by, resolved_at
\* of every alert) unchanged
C17_ResolveTwiceRejected ==
    [][\A w \in Workers :
        (Free(w) /\ req'[w] # req[w]) =>
            \A user \in Users, business \in Businesses, i \in 1..Len(alerts) :
                (/\ CanResolve(user, business, i)
                 /\ alerts[i].is_resolved
                 /\ Resolve(w, user, business, i)) =>
                    /\ req'[w].status = 400
                    /\ req'[w].error = "already_resolved"
                    /\ alerts' = alerts
      ]_vars

\* a resolve request on an alert that a restock had resolved has been answered 400
C17_Witness ==
    /\ req["w1"].pc = "done" /\ req["w1"].op = "resolve"
    /\ req["w1"].status = 400 /\ req["w1"].error = "already_resolved"
    /\ \E i \in 1..Len(alerts) : alerts[i].is_resolved

\* C18: a resolve request on an unresolved alert, made by a caller who manages
\* the inventory of the alert's business, is answered 200 and stores the alert
\* with is_resolved = TRUE, resolved_by = the caller and resolved_at set
C18_ManualResolveSucceeds ==
    [][\A w \in Workers :
        (Free(w) /\ req'[w] # req[w]) =>
            \A user \in Users, business \in Businesses, i \in 1..Len(alerts) :
                (/\ CanResolve(user, business, i)
                 /\ ~alerts[i].is_resolved
                 /\ Resolve(w, user, business, i)) =>
                    /\ req'[w].status = 200
                    /\ alerts'[i].is_resolved
                    /\ alerts'[i].resolved_by = user
                    /\ alerts'[i].resolved_at # Null
      ]_vars

\* C19: a step of an append writes a product's current_quantity only when the
\* caller is active staff with can_manage_inventory in the business that owns the
\* product; every ledger row was made by such a caller and carries the business
\* of its product
C19_TenantIsolation ==
    /\ [][\A w \in Workers :
            (req[w].pc = "save_product" /\ req'[w] # req[w]) =>
                HasBusinessPermission(req[w].performed_by,
                                      ProductBusiness(req[w].product))
         ]_vars
    /\ [](\A i \in 1..Len(movements) :
            /\ movements[i].business = ProductBusiness(movements[i].product)
            /\ HasBusinessPermission(movements[i].performed_by,
                                     ProductBusiness(movements[i].product)))

\* C20: a step in which the validator accepts a candidate is one whose candidate
\* has a positive quantity, a serial number when the product's tracking type is
\* SERIAL or BOTH, a batch number when it is BATCH or BOTH, and a reason when the
\* kind is RETURN, DAMAGE, THEFT or ADJUSTMENT; and in every state validate()
\* raises one of its first five errors for each candidate that breaks a rule
C20_ValidatorRules ==
    /\ [][\A w \in Workers :
            (Free(w) /\ req'[w].pc = "save_product") =>
                \A serial_number \in Present, batch_number \in Present,
                   reason \in Present :
                    CreateValidate(w, req'[w].performed_by, req'[w].business,
                                   req'[w].product, req'[w].movement_type,
                                   req'[w].quantity, serial_number, batch_number,
                                   reason) =>
                        OtherRulesHold(products[req'[w].product].tracking_type,
                                       req'[w].movement_type, req'[w].quantity,
                                       serial_number, batch_number, reason)
         ]_vars
    /\ [](\A p \in DOMAIN products, movement_type \in MOVEMENT_TYPES,
             quantity \in Quantities, serial_number \in Present,
             batch_number \in Present, reason \in Present :
                ~OtherRulesHold(products[p].tracking_type, movement_type, quantity,
                                serial_number, batch_number, reason) =>
                    Validate(products[p].tracking_type, products[p].current_quantity,
                             movement_type, quantity, serial_number, batch_number,
                             reason) \notin {"ok", "insufficient_stock"})

\* a DAMAGE with serial number, batch number and reason has been accepted on a
\* product tracked by BOTH, after a STOCK_IN
C20_Witness ==
    /\ products["p1"].tracking_type = "BOTH"
    /\ req["w1"].pc = "done" /\ req["w1"].op = "create" /\ req["w1"].status = 201
    /\ Len(movements) = 2
    /\ movements[2].movement_type = DAMAGE

\* a candidate without the batch number its product requires has been refused
C20_WitnessRejected ==
    /\ products["p1"].tracking_type = "BATCH"
    /\ req["w1"].pc = "done" /\ req["w1"].status = 400
    /\ req["w1"].error = "batch_required"

C21_WitnessRejected ==
    /\ req["w1"].pc = "done" /\ req["w1"].op = "create" /\ req["w1"].status = 400
    /\ req["w1"].error = "quantity_not_positive"
    /\ Len(movements) = 1
    /\ movements[1].movement_type = TRANSFER_IN

\* the rules of the validator that a candidate breaks
ViolatedRules(tracking_type, current_quantity, movement_type, quantity, serial_number, batch_number, reason) ==
    {rule \in {"quantity_not_positive", "serial_required", "batch_required",
               "reason_required", "insufficient_stock"} :
        \/ rule = "quantity_not_positive" /\ quantity <= 0
        \/ rule = "serial_required"
                /\ tracking_type \in {"SERIAL", "BOTH"} /\ ~serial_number
        \/ rule = "batch_required"
                /\ tracking_type \in {"BATCH", "BOTH"} /\ ~batch_number
        \/ rule = "reason_required"
                /\ movement_type \in {"RETURN", "DAMAGE", "THEFT", "ADJUSTMENT"}
                /\ ~reason
        \/ rule = "insufficient_stock"
                /\ movement_type \in Outbound /\ quantity > current_quantity}

\* the rules a 400 response reports: the one error it carries, the "tracking"
\* error standing for a missing serial number and a missing batch number
ReportedRules(error) ==
    IF error = "tracking_required" THEN {"serial_required", "batch_required"}
    ELSE {error}

\* C22: the 400 response to a candidate reports every rule the candidate breaks
C22_AllViolationsReported ==
    [][\A w \in Workers :
        (Free(w) /\ req'[w] # req[w] /\ req'[w].pc = "done") =>
            \A p \in DOMAIN products, movement_type \in MOVEMENT_TYPES,
               quantity \in Quantities, serial_number \in Present,
               batch_number \in Present, reason \in Present :
                CreateValidate(w, "u1", ProductBusiness(p), p, movement_type, quantity,
                               serial_number, batch_number, reason) =>
                    ViolatedRules(products[p].tracking_type,
                                  products[p].current_quantity, movement_type,
                                  quantity, serial_number, batch_number, reason)
                        \subseteq ReportedRules(req'[w].error)
      ]_vars

\* C23: no step of a recalculate_stock request, corrected or not, adds, removes
\* or rewrites a ledger row; every balance_after stays as it was recorded
C23_ReconcileKeepsLedger ==
    [][\A w \in Workers :
        (req'[w] # req[w] /\ req'[w].op = "reconcile") => movements' = movements
      ]_vars

\* a correction has been made while the ledger holds a row whose balance_after
\* is no longer the running balance: the row still carries it
C23_Witness ==
    /\ req["w1"].pc = "done" /\ req["w1"].op = "reconcile" /\ req["w1"].fixed
    /\ Len(movements) = 1
    /\ movements[1].movement_type = SALE
    /\ movements[1].balance_after = 3
    /\ products["p1"].current_quantity = -3

\* a reconcile that found nothing to correct has answered over two rows
C23_WitnessAccurate ==
    /\ req["w1"].pc = "done" /\ req["w1"].op = "reconcile" /\ ~req["w1"].fixed
    /\ Len(movements) = 2
    /\ movements[2].balance_after = products["p1"].current_quantity

\* C24: in no state does a product have an unresolved LOW_STOCK alert and an
\* unresolved OUT_OF_STOCK alert together
C24_AlertKindsExclusive ==
    \A p \in DOMAIN products :
        \/ OpenAlerts(alerts, p, "LOW_STOCK") = {}
        \/ OpenAlerts(alerts, p, "OUT_OF_STOCK") = {}

\* C25: every resolved alert has resolved_at set; one that no actor resolved
\* (resolved_by null) was resolved by the handler
C25_ResolvedHasTimestamp ==
    \A i \in 1..Len(alerts) :
        alerts[i].is_resolved => alerts[i].resolved_at # Null

\* C26: alert rows are never removed and keep their product and kind; a resolved
\* row stays resolved; and when the handler finds no unresolved alert of the kind
\* it wants, it inserts a new unresolved row and leaves every earlier row, the
\* resolved ones of that kind included, as it was
C26_AlertLifecycle ==
    [][/\ Len(alerts') >= Len(alerts)
       /\ \A i \in 1..Len(alerts) :
            /\ alerts'[i].product = alerts[i].product
            /\ alerts'[i].alert_type = alerts[i].alert_type
            /\ alerts[i].is_resolved => alerts'[i] = alerts[i]
       /\ \A w \in Workers :
            (req[w].pc = "alert_create" /\ req'[w] # req[w]) =>
                /\ Len(alerts') = Len(alerts) + 1
                /\ SubSeq(alerts', 1, Len(alerts)) = alerts
                /\ alerts'[Len(alerts')].product = req[w].product
                /\ ~alerts'[Len(alerts')].is_resolved
      ]_vars

\* the balance has returned to 0 after a restock had resolved the first
\* OUT_OF_STOCK alert: the table holds that resolved alert and a new open one
C26_Witness ==
    /\ AllFree
    /\ products["p1"].current_quantity = 0
    /\ \E i, j \in 1..Len(alerts) :
            /\ i < j
            /\ alerts[i].alert_type = "OUT_OF_STOCK" /\ alerts[i].is_resolved
            /\ alerts[j].alert_type = "OUT_OF_STOCK" /\ ~alerts[j].is_resolved

\* C27: every step of an append writes at most the current_quantity of the
\* append's product, adds at most one ledger row (the one of the append, by the
\* step that answers 201), and inserts or modifies at most one alert row, of that
\* product; the handler writes alerts in one step of an append only
C27_AppendFootprint ==
    [][\A w \in Workers :
        (Busy(w) /\ req[w].op = "create" /\ req'[w] # req[w]) =>
            /\ \A p \in DOMAIN products :
                    p # req[w].product => products'[p] = products[p]
            /\ products' = [products EXCEPT ![req[w].product].current_quantity =
                                products'[req[w].product].current_quantity]
            /\ IF req'[w].pc = "done" /\ req'[w].status = 201
               THEN /\ Len(movements') = Len(movements) + 1
                    /\ SubSeq(movements', 1, Len(movements)) = movements
                    /\ movements'[Len(movements')].product = req[w].product
               ELSE movements' = movements
            /\ Cardinality({i \in 1..Len(alerts') :
                                i > Len(alerts) \/ alerts'[i] # alerts[i]}) <= 1
            /\ \A i \in 1..Len(alerts') :
                    (i > Len(alerts) \/ alerts'[i] # alerts[i]) =>
                        alerts'[i].product = req[w].product
      ]_vars

\* C28: once an append and a concurrent recalculate_stock on the same product
\* have both been answered, current_quantity equals the signed sum of the ledger
C28_ReconcileRaceSafe ==
    (/\ req["w1"].pc = "done" /\ req["w1"].op = "create"
     /\ req["w2"].pc = "done" /\ req["w2"].op = "reconcile") =>
        products["p1"].current_quantity = SignedSum(movements, "p1")

\* C29: starting from quantity 0, validator-accepted appends of any kinds keep
\* every product's current_quantity and every row's balance_after at 0 or above
C29_QuantityNeverNegative ==
    /\ \A p \in DOMAIN products : products[p].current_quantity >= 0
    /\ \A i \in 1..Len(movements) : movements[i].balance_after >= 0

\* C30: in every state each business's owner holds an active membership of the
\* business with the OWNER role
C30_OwnerMembershipProtected ==
    \A business \in Businesses :
        [user |-> BusinessOwner(business), business |-> business,
         role |-> OWNER, is_active |-> TRUE] \in staff_members

====
